---- MODULE Spec2Model ----
(***************************************************************************)
(* Model of the Ingeteam Modbus integration:                               *)
(*   - IngeteamModbusHub (custom_components/ingeteam_modbus/__init__.py):  *)
(*     the periodic poll cycle run in executor threads, the event-loop     *)
(*     handlers (timer tick, add/remove sensor), set_schedule_type and the *)
(*     lock around the shared pymodbus client;                             *)
(*   - the battery power logic and the schedule word encoding as pure      *)
(*     operators;                                                          *)
(*   - ModbusClient.read_block / read_register_map (modbus_client.py).     *)
(* Floats are modelled as scaled integers: battery_voltage in 1/10 V,      *)
(* battery_current in 1/100 A, the battery powers in 1/1000 W.             *)
(***************************************************************************)
EXTENDS Integers, Sequences, FiniteSets, TLC

\* ------------------------------------------------------------------------
\* Bounds of the model
\* ------------------------------------------------------------------------
\* number of times the wall clock advances
MaxTicks == 1
\* seconds the wall clock advances in one step
ClockStep == 70
\* time.time() at start-up (any value above the staleness interval)
StartTime == 100

\* ------------------------------------------------------------------------
\* Program constants
\* ------------------------------------------------------------------------
\* "if now - self._last_config_update > 60"
StaleSeconds == 60
\* "if len(registers) < 130"
MinRegisters == 130
\* "regs_1000 = [0] * 60"
Count1000 == 60
\* "status_reg_1007 = registers[137] if len(registers) > 137 else 0"
StatusIndex == 137

NoVal == "none"

\* an absent value (None, a missing key) and a present one
None == <<>>
Some(v) == <<v>>

\* executor threads running _update_modbus_data
Jobs == {"j1", "j2"}
\* executor threads running set_schedule_type._write_modbus
Writers == {"w1", "w2"}
\* the event loop thread
Loop == "loop"
Callbacks == {"cb1", "cb2"}

\* ------------------------------------------------------------------------
\* Pure helpers of IngeteamModbusHub
\* ------------------------------------------------------------------------
Abs(x) == IF x < 0 THEN -x ELSE x

RECURSIVE Pow2(_)
Pow2(n) == IF n = 0 THEN 1 ELSE 2 * Pow2(n - 1)

\* w >> n
Shr(w, n) == w \div Pow2(n)
\* w << n
Shl(w, n) == w * Pow2(n)
\* bit n of w
Bit(w, n) == Shr(w, n) % 2

\* _decode_signed: two's complement of a 16-bit word
DecodeSignedMutant(value) == IF value > 32768 THEN value - 65536 ELSE value
DecodeSigned(value) == IF Bit(value, 15) = 1 THEN value - 65536 ELSE value

\* x | y on non-negative integers
RECURSIVE BitOr(_, _)
BitOr(x, y) ==
    IF x = 0 THEN y
    ELSE IF y = 0 THEN x
    ELSE (IF x % 2 = 1 \/ y % 2 = 1 THEN 1 ELSE 0) + 2 * BitOr(x \div 2, y \div 2)

\* x & 0x03
And3(x) == x % 4

\* ------------------------------------------------------------------------
\* read_modbus_data: battery power logic (registers 16, 19 and 21)
\* ------------------------------------------------------------------------
\* "raw_power_21 == 0 or abs(self.data['battery_current']) < 0.5"
DeadbandMutant(raw21, i100) == raw21 = 0 \/ i100 < 50
Deadband(raw21, i100) == raw21 = 0 \/ Abs(i100) < 50

\* the five battery keys written by one cycle; r16, r19, r21 are raw words
BatteryLogic(r16, r19, r21) ==
    LET v10   == r16
        i100  == DecodeSigned(r19)
        raw21 == DecodeSigned(r21)
        dead  == Deadband(raw21, i100)
        calc  == IF dead THEN 0 ELSE v10 * i100
        cur   == IF dead THEN 0 ELSE i100
    IN  [battery_voltage |-> v10,
         battery_current |-> cur,
         battery_power |->
             IF cur > 0 THEN Abs(calc) ELSE IF cur < 0 THEN -Abs(calc) ELSE 0,
         battery_discharging_power |-> IF cur > 0 THEN Abs(calc) ELSE 0,
         battery_charging_power |-> IF cur < 0 THEN Abs(calc) ELSE 0]

\* ------------------------------------------------------------------------
\* set_schedule_type._write_modbus: the word written to holding register 25
\* ------------------------------------------------------------------------
\* "(current_val >> 4) & 0x03" and "(current_val >> 6) & 0x03"
SchType1(w) == And3(Shr(w, 4))
SchType2(w) == And3(Shr(w, 6))

NewValMutant(current_val, schedule_index, value) ==
    LET target_sch1 == IF schedule_index = 1 THEN value ELSE SchType1(current_val)
        target_sch2 == IF schedule_index = 1 THEN SchType2(current_val) ELSE value
    IN  BitOr(BitOr(1, Shl(target_sch1, 4)), Shl(target_sch2, 5))
NewVal(current_val, schedule_index, value) ==
    LET target_sch1 == IF schedule_index = 1 THEN value ELSE SchType1(current_val)
        target_sch2 == IF schedule_index = 1 THEN SchType2(current_val) ELSE value
    IN  BitOr(BitOr(1, Shl(target_sch1, 4)), Shl(target_sch2, 6))


\* ------------------------------------------------------------------------
\* IngeteamModbusHub: state
\* ------------------------------------------------------------------------
VARIABLES
    sensors,            \* self._sensors: the list of update callbacks
    unsub,              \* self._unsub_interval_method is set (timer scheduled)
    evPc,               \* where the event loop thread is
    evArg,              \* the callback async_add_ingeteam_sensor is adding
    lock,               \* holder of self._lock, or NoVal
    inClient,           \* threads inside a call on self._client
    sockOpen,           \* self._client.is_socket_open()
    data,               \* self.data, the snapshot
    lastConfigUpdate,   \* self._last_config_update
    clock,              \* time.time()
    job,                \* executor jobs running _update_modbus_data
    wr,                 \* executor jobs running set_schedule_type._write_modbus
    h25,                \* the device's holding register 25
    lastCalled,         \* callbacks invoked by the last finished refresh
    invalidated,        \* history: a set_schedule_type write completed and no
                        \* cycle has started since
    holdRead,           \* history: "now" of the cycle whose holding read was the
                        \* last to succeed, None after an invalidation
    env,                \* the environment the hub runs in (never changes)
    calc,               \* a pure function of the hub applied to chosen inputs
    rm                  \* ModbusClient.read_register_map in progress

hubVars == <<sensors, unsub, evPc, evArg, lock, inClient, sockOpen, data,
             lastConfigUpdate, clock, job, wr, h25, lastCalled, invalidated,
             holdRead, env>>

vars == <<hubVars, calc, rm>>

\* words (registers 16, 19, 21) the device may return for the battery:
\* 48.0 V discharging 2 A, and 48.0 V charging 2 A
Discharging == <<480, 200, 100>>
Charging == <<480, 65336, 65436>>
\* words the device may return for input register 1007
HubStatus == {3}
\* length of a non-error response to the read at address 100
HubLen2 == {30}
\* schedule types the select entities write in this model
HubTypes == {2}

\* The environments the hub is checked in.  Each names the executor threads
\* that run poll cycles (jobs) and set_schedule_type (writers), the entities
\* that subscribe (callbacks), whether they are removed again (remove),
\* whether the transport can fail (fail), the lengths of a non-error response to the read at address 0
\* (len1), the battery words the device returns (battery) and how often the
\* wall clock advances (ticks).
Environments ==
    { \* a slow device: the timer fires while a cycle is running
      [jobs |-> {"j1", "j2"}, writers |-> {}, callbacks |-> {"cb1"},
       remove |-> FALSE, fail |-> TRUE,
       len1 |-> {100}, battery |-> {Discharging}, ticks |-> 0],
      \* a schedule is set while the hub polls
      [jobs |-> {"j1"}, writers |-> {"w1"}, callbacks |-> {"cb1"},
       remove |-> FALSE, fail |-> FALSE,
       len1 |-> {100}, battery |-> {Discharging}, ticks |-> MaxTicks],
      \* the device's values change and its responses may be short
      [jobs |-> {"j1"}, writers |-> {}, callbacks |-> {"cb1", "cb2"},
       remove |-> TRUE, fail |-> TRUE,
       len1 |-> {100, 30}, battery |-> {Discharging, Charging}, ticks |-> 0],
      \* entities come and go while the hub polls and a schedule is set
      [jobs |-> {"j1"}, writers |-> {"w1"}, callbacks |-> {"cb1"},
       remove |-> TRUE, fail |-> TRUE,
       len1 |-> {100}, battery |-> {Discharging}, ticks |-> 0] }

\* error outcomes exist only where the transport can fail
Outcomes == IF env.fail THEN BOOLEAN ELSE {TRUE}

\* self.data = {} : no key present
EmptyData ==
    [battery_voltage |-> None, battery_current |-> None, battery_power |-> None,
     battery_discharging_power |-> None, battery_charging_power |-> None,
     inverter_state |-> None,
     config_soc_ac_charging_schedule1_type |-> None,
     config_soc_ac_charging_schedule2_type |-> None]

IdleJob ==
    [pc |-> "idle", held |-> FALSE, now |-> 0, len1 |-> 0, len2 |-> 0,
     batt |-> None, regs1000 |-> None, holding |-> None, result |-> FALSE,
     issued |-> {}, failed |-> {}, after |-> FALSE, wrote |-> FALSE,
     before |-> EmptyData]

IdleWriter ==
    [pc |-> "idle", held |-> FALSE, schedule_index |-> 0, value |-> 0, new_val |-> 0]

\* nothing is being computed
NoCalc == [op |-> "none"]
NoMap == [pc |-> "none"]

\* IngeteamModbusHub.__init__, in environment e
HubInit(e) ==
    /\ sensors = <<>>
    /\ unsub = FALSE
    /\ evPc = "idle"
    /\ evArg = NoVal
    /\ lock = NoVal
    /\ inClient = {}
    /\ sockOpen = FALSE
    /\ data = EmptyData
    /\ lastConfigUpdate = 0
    /\ clock = StartTime
    /\ job = [j \in Jobs |-> IdleJob]
    /\ wr = [w \in Writers |-> IdleWriter]
    /\ h25 = 1
    /\ lastCalled = <<>>
    /\ invalidated = FALSE
    /\ holdRead = None
    /\ env = e

Init ==
    /\ \E e \in Environments : HubInit(e)
    /\ calc = NoCalc
    /\ rm = NoMap

Range(s) == {s[i] : i \in 1..Len(s)}

\* list.remove(x): drop the first occurrence
RECURSIVE Remove(_, _)
Remove(s, x) ==
    IF s = <<>> THEN <<>>
    ELSE IF Head(s) = x THEN Tail(s)
    ELSE <<Head(s)>> \o Remove(Tail(s), x)

\* "with self._lock:" entered by thread t
AcquireMutant(t) ==
    /\ lock' = t
    /\ inClient' = inClient \cup {t}
Acquire(t) ==
    /\ lock = NoVal
    /\ lock' = t
    /\ inClient' = inClient \cup {t}

\* the client call returned and the "with" block is left
Release(t) ==
    /\ lock' = NoVal
    /\ inClient' = inClient \ {t}

\* ------------------------------------------------------------------------
\* Event loop handlers
\* ------------------------------------------------------------------------
\* async_add_ingeteam_sensor, up to the call of self.connect()
AddSensor(cb) ==
    /\ evPc = "idle"
    /\ cb \in env.callbacks
    /\ cb \notin Range(sensors)
    /\ IF sensors = <<>>
       THEN /\ evPc' = "connect"
            /\ evArg' = cb
            /\ UNCHANGED sensors
       ELSE /\ sensors' = Append(sensors, cb)
            /\ UNCHANGED <<evPc, evArg>>
    /\ UNCHANGED <<calc, rm, env, holdRead, unsub, lock, inClient, sockOpen,
                   data, lastConfigUpdate, clock, job, wr, h25, lastCalled,
                   invalidated>>

\* connect() / close() on the event loop: "with self._lock:"
LoopAcquire ==
    /\ evPc \in {"connect", "close"}
    /\ Loop \notin inClient
    /\ Acquire(Loop)
    /\ UNCHANGED <<calc, rm, env, holdRead, sensors, unsub, evPc, evArg,
                   sockOpen, data, lastConfigUpdate, clock, job, wr, h25,
                   lastCalled, invalidated>>

\* connect() returns; the timer is started and the callback appended
ConnectDone ==
    /\ evPc = "connect"
    /\ Loop \in inClient
    /\ \E ok \in Outcomes : sockOpen' = (sockOpen \/ ok)
    /\ Release(Loop)
    /\ unsub' = TRUE
    /\ sensors' = Append(sensors, evArg)
    /\ evPc' = "idle"
    /\ evArg' = NoVal
    /\ UNCHANGED <<calc, rm, env, holdRead, data, lastConfigUpdate, clock,
                   job, wr, h25, lastCalled, invalidated>>

\* async_remove_ingeteam_sensor without "if not self._sensors and ...": the
\* timer is left running and the connection open
RemoveSensorMutant(cb) ==
    /\ evPc = "idle"
    /\ env.remove
    /\ cb \in Range(sensors)
    /\ sensors' = Remove(sensors, cb)
    /\ UNCHANGED <<calc, rm, env, holdRead, unsub, evPc, evArg, lock, inClient,
                   sockOpen, data, lastConfigUpdate, clock, job, wr, h25,
                   lastCalled, invalidated>>
\* async_remove_ingeteam_sensor, up to the call of self.close()
RemoveSensor(cb) ==
    /\ evPc = "idle"
    /\ env.remove
    /\ cb \in Range(sensors)
    /\ sensors' = Remove(sensors, cb)
    /\ IF sensors' = <<>> /\ unsub
       THEN unsub' = FALSE /\ evPc' = "close"
       ELSE UNCHANGED <<unsub, evPc>>
    /\ UNCHANGED <<calc, rm, env, holdRead, evArg, lock, inClient, sockOpen,
                   data, lastConfigUpdate, clock, job, wr, h25, lastCalled,
                   invalidated>>

\* close() returns
CloseDone ==
    /\ evPc = "close"
    /\ Loop \in inClient
    /\ sockOpen' = FALSE
    /\ Release(Loop)
    /\ evPc' = "idle"
    /\ UNCHANGED <<calc, rm, env, holdRead, sensors, unsub, evArg, data,
                   lastConfigUpdate, clock, job, wr, h25, lastCalled,
                   invalidated>>

\* the interval timer fires: async_refresh_modbus_data hands
\* _update_modbus_data to an executor thread
TimerTick(j) ==
    /\ evPc = "idle"
    /\ unsub
    /\ sensors # <<>>
    /\ j \in env.jobs
    /\ job[j].pc = "idle"
    /\ job' = [job EXCEPT ![j] = [IdleJob EXCEPT !.pc = "reconnect",
                                                 !.after = invalidated]]
    /\ invalidated' = FALSE
    /\ UNCHANGED <<calc, rm, env, holdRead, sensors, unsub, evPc, evArg, lock,
                   inClient, sockOpen, data, lastConfigUpdate, clock, wr, h25,
                   lastCalled>>

\* "if update_result: for update_callback in self._sensors: update_callback()"
CallbacksToRunMutant(update_result, s) == s
CallbacksToRunTwice(update_result, s) == IF update_result THEN s \o s ELSE <<>>
CallbacksToRun(update_result, s) == IF update_result THEN s ELSE <<>>

\* the executor job is done: async_refresh_modbus_data resumes
RefreshDone(j) ==
    /\ evPc = "idle"
    /\ job[j].pc = "done"
    /\ lastCalled' = CallbacksToRun(job[j].result, sensors)
    /\ job' = [job EXCEPT ![j] = IdleJob]
    /\ UNCHANGED <<calc, rm, env, holdRead, sensors, unsub, evPc, evArg, lock,
                   inClient, sockOpen, data, lastConfigUpdate, clock, wr, h25,
                   invalidated>>

\* wall clock
Advance ==
    /\ clock + ClockStep <= StartTime + env.ticks * ClockStep
    /\ clock' = clock + ClockStep
    /\ UNCHANGED <<calc, rm, env, holdRead, sensors, unsub, evPc, evArg, lock,
                   inClient, sockOpen, data, lastConfigUpdate, job, wr, h25,
                   lastCalled, invalidated>>


\* ------------------------------------------------------------------------
\* _update_modbus_data / read_modbus_data in an executor thread
\* ------------------------------------------------------------------------
\* the function returns: locals are dropped
Finish(rec, result) ==
    [rec EXCEPT !.pc = "done", !.result = result, !.now = 0, !.batt = None,
                !.regs1000 = None, !.holding = None, !.before = EmptyData]

\* "registers = req1.registers + req2.registers + regs_1000"
NumRegisters(rec) == rec.len1 + rec.len2 + Count1000

\* "if len(registers) < 130: return False", else on to the decoding
LenCheck(rec) ==
    IF NumRegisters(rec) < MinRegisters
    THEN Finish(rec, FALSE)
    ELSE [rec EXCEPT !.pc = "dec1"]

\* a job enters "with self._lock:" for its next client call
JobAcquire(j) ==
    /\ job[j].pc \in {"reconnect", "read0", "read100", "read1000", "readH"}
    /\ ~job[j].held
    /\ Acquire(j)
    /\ job' = [job EXCEPT ![j].held = TRUE]
    /\ UNCHANGED <<calc, rm, env, holdRead, sensors, unsub, evPc, evArg,
                   sockOpen, data, lastConfigUpdate, clock, wr, h25,
                   lastCalled, invalidated>>

\* _check_and_reconnect
JobReconnect(j) ==
    /\ job[j].pc = "reconnect"
    /\ job[j].held
    /\ \E ok \in Outcomes :
          /\ sockOpen' = (sockOpen \/ ok)
          /\ job' = [job EXCEPT ![j] =
                IF sockOpen' THEN [@ EXCEPT !.pc = "read0", !.held = FALSE]
                ELSE Finish([@ EXCEPT !.held = FALSE], FALSE)]
    /\ Release(j)
    /\ UNCHANGED <<calc, rm, env, holdRead, sensors, unsub, evPc, evArg, data,
                   lastConfigUpdate, clock, wr, h25, lastCalled, invalidated>>

\* "if req1.isError(): return False" and "if req2.isError(): return False"
OnInputError(rec) == Finish(rec, FALSE)

\* "if req3.isError(): regs_1000 = [0] * 60": the cycle goes on
OnError1000Mutant(rec) == Finish(rec, FALSE)
OnError1000(rec) == [rec EXCEPT !.pc = "chk", !.regs1000 = None]

\* chunk 1: read_input_registers(address=0, count=100)
JobRead0(j) ==
    /\ job[j].pc = "read0"
    /\ job[j].held
    /\ \/ /\ env.fail
          /\ job' = [job EXCEPT ![j] =
                OnInputError([@ EXCEPT !.held = FALSE, !.issued = @ \cup {"in0"},
                                       !.failed = @ \cup {"in0"}])]
       \/ \E n \in env.len1, b \in env.battery :
             job' = [job EXCEPT ![j] =
                [@ EXCEPT !.pc = "read100", !.held = FALSE,
                          !.issued = @ \cup {"in0"}, !.len1 = n, !.batt = b]]
    /\ Release(j)
    /\ UNCHANGED <<calc, rm, env, holdRead, sensors, unsub, evPc, evArg,
                   sockOpen, data, lastConfigUpdate, clock, wr, h25,
                   lastCalled, invalidated>>

\* chunk 2: read_input_registers(address=100, count=30)
JobRead100(j) ==
    /\ job[j].pc = "read100"
    /\ job[j].held
    /\ \/ /\ env.fail
          /\ job' = [job EXCEPT ![j] =
                OnInputError([@ EXCEPT !.held = FALSE, !.issued = @ \cup {"in100"},
                                       !.failed = @ \cup {"in100"}])]
       \/ \E n \in HubLen2 :
             job' = [job EXCEPT ![j] =
                [@ EXCEPT !.pc = "read1000", !.held = FALSE,
                          !.issued = @ \cup {"in100"}, !.len2 = n]]
    /\ Release(j)
    /\ UNCHANGED <<calc, rm, env, holdRead, sensors, unsub, evPc, evArg,
                   sockOpen, data, lastConfigUpdate, clock, wr, h25,
                   lastCalled, invalidated>>

\* chunk 3: read_input_registers(address=1000, count=60); zeros on error
JobRead1000(j) ==
    /\ job[j].pc = "read1000"
    /\ job[j].held
    /\ \/ /\ env.fail
          /\ job' = [job EXCEPT ![j] =
                OnError1000([@ EXCEPT !.held = FALSE, !.issued = @ \cup {"in1000"},
                                      !.failed = @ \cup {"in1000"}])]
       \/ \E st \in HubStatus :
             job' = [job EXCEPT ![j] =
                [@ EXCEPT !.pc = "chk", !.held = FALSE,
                          !.issued = @ \cup {"in1000"}, !.regs1000 = Some(st)]]
    /\ Release(j)
    /\ UNCHANGED <<calc, rm, env, holdRead, sensors, unsub, evPc, evArg,
                   sockOpen, data, lastConfigUpdate, clock, wr, h25,
                   lastCalled, invalidated>>

\* "now - self._last_config_update > 60"
IsStale(now, last) == now - last > StaleSeconds

\* chunk 4: "now = time.time(); if now - self._last_config_update > 60:"
JobCheckStale(j) ==
    /\ job[j].pc = "chk"
    /\ job' = [job EXCEPT ![j] =
          IF IsStale(clock, lastConfigUpdate)
          THEN [@ EXCEPT !.pc = "readH", !.now = clock]
          ELSE LenCheck([@ EXCEPT !.now = clock])]
    /\ UNCHANGED <<calc, rm, env, holdRead, sensors, unsub, evPc, evArg, lock,
                   inClient, sockOpen, data, lastConfigUpdate, clock, wr, h25,
                   lastCalled, invalidated>>

\* chunk 4: read_holding_registers(address=0, count=50)
JobReadHolding(j) ==
    /\ job[j].pc = "readH"
    /\ job[j].held
    /\ \/ /\ env.fail
          /\ job' = [job EXCEPT ![j] =
                LenCheck([@ EXCEPT !.held = FALSE, !.issued = @ \cup {"hold"},
                                   !.failed = @ \cup {"hold"}])]
          /\ UNCHANGED holdRead
       \/ /\ job' = [job EXCEPT ![j] =
                [@ EXCEPT !.pc = "setLast", !.held = FALSE,
                          !.issued = @ \cup {"hold"}, !.holding = Some(h25)]]
          /\ holdRead' = Some(job[j].now)
    /\ Release(j)
    /\ UNCHANGED <<calc, rm, env, sensors, unsub, evPc, evArg, sockOpen, data,
                   lastConfigUpdate, clock, wr, h25, lastCalled, invalidated>>

\* "self._last_config_update = now", then the length check
JobSetLast(j) ==
    /\ job[j].pc = "setLast"
    /\ lastConfigUpdate' = job[j].now
    /\ job' = [job EXCEPT ![j] = LenCheck(@)]
    /\ UNCHANGED <<calc, rm, env, holdRead, sensors, unsub, evPc, evArg, lock,
                   inClient, sockOpen, data, clock, wr, h25, lastCalled,
                   invalidated>>


\* the word the device holds at offset off of the block at 1000; st is the
\* word of register 1007
Device1000(off, st) == IF off = 7 THEN st ELSE off

\* "registers[137] if len(registers) > 137 else 0", registers being
\* req1.registers + req2.registers + regs_1000
StatusReg1007(rec) ==
    LET off == StatusIndex - (rec.len1 + rec.len2)
    IN  IF NumRegisters(rec) > StatusIndex
        THEN (IF rec.regs1000 = None THEN 0 ELSE Device1000(off, rec.regs1000[1]))
        ELSE 0

\* lines 459-495: the battery keys
ApplyBattery(d, rec) ==
    LET b == BatteryLogic(rec.batt[1], rec.batt[2], rec.batt[3])
    IN  [d EXCEPT !.battery_voltage = Some(b.battery_voltage),
                  !.battery_current = Some(b.battery_current),
                  !.battery_power = Some(b.battery_power),
                  !.battery_discharging_power = Some(b.battery_discharging_power),
                  !.battery_charging_power = Some(b.battery_charging_power)]

\* lines 646-649: the inverter status
ApplyStatus(d, rec) == [d EXCEPT !.inverter_state = Some(StatusReg1007(rec))]

\* lines 652-687: the configuration, "if holding_regs:"
ApplyConfig(d, rec) ==
    IF rec.holding # None
    THEN [d EXCEPT
            !.config_soc_ac_charging_schedule1_type = Some(SchType1(rec.holding[1])),
            !.config_soc_ac_charging_schedule2_type = Some(SchType2(rec.holding[1]))]
    ELSE d

\* the snapshot a cycle leaves when it runs alone from snapshot d
Snapshot(d, rec) == ApplyConfig(ApplyStatus(ApplyBattery(d, rec), rec), rec)

JobDecodeBattery(j) ==
    /\ job[j].pc = "dec1"
    /\ data' = ApplyBattery(data, job[j])
    /\ job' = [job EXCEPT ![j] = [@ EXCEPT !.pc = "dec2", !.wrote = TRUE,
                                           !.before = data]]
    /\ UNCHANGED <<calc, rm, env, holdRead, sensors, unsub, evPc, evArg, lock,
                   inClient, sockOpen, lastConfigUpdate, clock, wr, h25,
                   lastCalled, invalidated>>

JobDecodeStatus(j) ==
    /\ job[j].pc = "dec2"
    /\ data' = ApplyStatus(data, job[j])
    /\ job' = [job EXCEPT ![j].pc = "dec3"]
    /\ UNCHANGED <<calc, rm, env, holdRead, sensors, unsub, evPc, evArg, lock,
                   inClient, sockOpen, lastConfigUpdate, clock, wr, h25,
                   lastCalled, invalidated>>

\* the configuration keys, then "return True"
JobDecodeConfig(j) ==
    /\ job[j].pc = "dec3"
    /\ data' = ApplyConfig(data, job[j])
    /\ job' = [job EXCEPT ![j] = Finish(@, TRUE)]
    /\ UNCHANGED <<calc, rm, env, holdRead, sensors, unsub, evPc, evArg, lock,
                   inClient, sockOpen, lastConfigUpdate, clock, wr, h25,
                   lastCalled, invalidated>>

\* ------------------------------------------------------------------------
\* set_schedule_type: _write_modbus in an executor thread
\* ------------------------------------------------------------------------
\* IngeteamScheduleSelect.async_select_option -> hub.set_schedule_type
WriterStart(w, schedule_index, value) ==
    /\ evPc = "idle"
    /\ w \in env.writers
    /\ wr[w].pc = "idle"
    /\ wr' = [wr EXCEPT ![w] = [IdleWriter EXCEPT !.pc = "read",
                                 !.schedule_index = schedule_index,
                                 !.value = value]]
    /\ UNCHANGED <<calc, rm, env, holdRead, sensors, unsub, evPc, evArg, lock,
                   inClient, sockOpen, data, lastConfigUpdate, clock, job,
                   h25, lastCalled, invalidated>>

WriterAcquire(w) ==
    /\ wr[w].pc \in {"read", "write"}
    /\ ~wr[w].held
    /\ Acquire(w)
    /\ wr' = [wr EXCEPT ![w].held = TRUE]
    /\ UNCHANGED <<calc, rm, env, holdRead, sensors, unsub, evPc, evArg,
                   sockOpen, data, lastConfigUpdate, clock, job, h25,
                   lastCalled, invalidated>>

\* step 1 and 2: read register 25, compute new_val, "if new_val == current_val"
WriterRead(w) ==
    /\ wr[w].pc = "read"
    /\ wr[w].held
    /\ \/ env.fail /\ wr' = [wr EXCEPT ![w] = IdleWriter]
       \/ LET new_val == NewVal(h25, wr[w].schedule_index, wr[w].value)
          IN  wr' = [wr EXCEPT ![w] =
                 IF new_val = h25 THEN IdleWriter
                 ELSE [@ EXCEPT !.pc = "write", !.held = FALSE, !.new_val = new_val]]
    /\ Release(w)
    /\ UNCHANGED <<calc, rm, env, holdRead, sensors, unsub, evPc, evArg,
                   sockOpen, data, lastConfigUpdate, clock, job, h25,
                   lastCalled, invalidated>>

\* step 3: write_register(address=25, value=new_val)
WriterWrite(w) ==
    /\ wr[w].pc = "write"
    /\ wr[w].held
    /\ \/ env.fail /\ wr' = [wr EXCEPT ![w] = IdleWriter] /\ UNCHANGED h25
       \/ /\ h25' = wr[w].new_val
          /\ wr' = [wr EXCEPT ![w] = [@ EXCEPT !.pc = "inval", !.held = FALSE]]
    /\ Release(w)
    /\ UNCHANGED <<calc, rm, env, holdRead, sensors, unsub, evPc, evArg,
                   sockOpen, data, lastConfigUpdate, clock, job, lastCalled,
                   invalidated>>

\* "self._last_config_update = 0; return True"
WriterInvalidate(w) ==
    /\ wr[w].pc = "inval"
    /\ lastConfigUpdate' = 0
    /\ invalidated' = TRUE
    /\ holdRead' = None
    /\ wr' = [wr EXCEPT ![w] = IdleWriter]
    /\ UNCHANGED <<calc, rm, env, sensors, unsub, evPc, evArg, lock, inClient,
                   sockOpen, data, clock, job, h25, lastCalled>>

\* ------------------------------------------------------------------------
\* The hub as a whole
\* ------------------------------------------------------------------------
Next ==
    \/ \E cb \in Callbacks : AddSensor(cb)
    \/ LoopAcquire
    \/ ConnectDone
    \/ \E cb \in Callbacks : RemoveSensor(cb)
    \/ CloseDone
    \/ \E j \in Jobs : TimerTick(j)
    \/ \E j \in Jobs : RefreshDone(j)
    \/ Advance
    \/ \E j \in Jobs : JobAcquire(j)
    \/ \E j \in Jobs : JobReconnect(j)
    \/ \E j \in Jobs : JobRead0(j)
    \/ \E j \in Jobs : JobRead100(j)
    \/ \E j \in Jobs : JobRead1000(j)
    \/ \E j \in Jobs : JobCheckStale(j)
    \/ \E j \in Jobs : JobReadHolding(j)
    \/ \E j \in Jobs : JobSetLast(j)
    \/ \E j \in Jobs : JobDecodeBattery(j)
    \/ \E j \in Jobs : JobDecodeStatus(j)
    \/ \E j \in Jobs : JobDecodeConfig(j)
    \/ \E w \in Writers, i \in {1, 2}, v \in HubTypes : WriterStart(w, i, v)
    \/ \E w \in Writers : WriterAcquire(w)
    \/ \E w \in Writers : WriterRead(w)
    \/ \E w \in Writers : WriterWrite(w)
    \/ \E w \in Writers : WriterInvalidate(w)

Spec == Init /\ [][Next]_vars


\* ------------------------------------------------------------------------
\* Properties of the hub
\* ------------------------------------------------------------------------
\* the configuration keys of a snapshot
ConfigOf(d) ==
    <<d.config_soc_ac_charging_schedule1_type, d.config_soc_ac_charging_schedule2_type>>

\* _update_modbus_data is in progress in executor job j
Running(j) == job[j].pc \notin {"idle", "done"}

\* C1: while a cycle decodes, hub.data is either the snapshot it found or the
\* complete snapshot it is going to leave, never a mixture of the two.
C1_SnapshotNeverMixed ==
    \A j \in Jobs :
        job[j].pc \in {"dec2", "dec3"} =>
            data \in {job[j].before, Snapshot(job[j].before, job[j])}

\* C2: a cycle that returns False has written no key of hub.data (every step
\* of a job that changes hub.data marks the job, and a marked job never
\* returns False), and its refresh invokes no callback.
C2_FailedCycleLeavesData ==
    [][\A j \in Jobs :
          /\ (job'[j] # job[j] /\ data' # data) => job'[j].wrote
          /\ (job'[j].pc = "done" /\ ~job'[j].result) => ~job'[j].wrote
          /\ (job[j].pc = "done" /\ ~job[j].result /\ job'[j].pc = "idle")
                => lastCalled' = <<>>]_vars

\* a cycle got an incomplete response after reading all its blocks and
\* returned False while hub.data holds an earlier snapshot
C2_Witness ==
    \E j \in Jobs :
        /\ job[j].pc = "done"
        /\ ~job[j].result
        /\ "in1000" \in job[j].issued
        /\ NumRegisters(job[j]) < MinRegisters
        /\ data.battery_voltage # None

\* C3: at most one execution of _update_modbus_data is in progress.
C3_CyclesNeverOverlap == Cardinality({j \in Jobs : Running(j)}) <= 1

\* C4: at most one thread is inside a call on the shared client, and a thread
\* inside such a call holds the lock.
C4_ClientCallsExclusive ==
    /\ Cardinality(inClient) <= 1
    /\ \A t \in inClient : lock = t

\* a poll cycle is inside a client call while set_schedule_type and close()
\* are waiting for the lock
C4_Witness ==
    \E j \in Jobs, w \in Writers :
        /\ j \in inClient
        /\ wr[w].pc \in {"read", "write"}
        /\ ~wr[w].held
        /\ evPc = "close"
        /\ Loop \notin inClient

C7_HoldingReadEvery60s ==
    /\ [](\A j \in Jobs :
            (job[j].pc = "readH" /\ job[j].held) =>
                (holdRead = None \/ job[j].now - holdRead[1] > StaleSeconds))
    /\ [][\A j \in Jobs :
            /\ (job[j].pc = "readH" /\ "hold" \in job'[j].failed)
                  => lastConfigUpdate' = lastConfigUpdate
            /\ (job'[j] # job[j] /\ "hold" \notin job'[j].issued)
                  => ConfigOf(data') = ConfigOf(data)]_vars

\* C8: the first cycle started after set_schedule_type has written register
\* 25 and returned re-reads the holding block when it gets to chunk 4.
C8_NextCycleRereadsConfig ==
    \A j \in Jobs :
        (job[j].after /\ "in1000" \in job[j].issued /\ job[j].pc \notin {"chk", "readH"})
            => "hold" \in job[j].issued


\* ------------------------------------------------------------------------
\* The pure functions of the hub, applied to chosen inputs
\* ------------------------------------------------------------------------
\* an environment in which no thread runs
Quiet ==
    [jobs |-> {}, writers |-> {}, callbacks |-> {}, remove |-> FALSE,
     fail |-> FALSE, len1 |-> {100}, battery |-> {Discharging}, ticks |-> 0]

\* raw words for register 16 (battery voltage, 0.1 V)
BatteryVoltageWords == {0, 1, 480, 5000, 65535}
\* raw words for register 19 (battery current, 0.01 A), around the deadband
BatteryCurrentWords ==
    {0, 1, 49, 50, 51, 200, 32767, 32768, 65336, 65485, 65486, 65487, 65535}
\* raw words for register 21 (battery power, 0.1 W)
BatteryPowerWords == {0, 1, 100, 32768, 65436, 65535}
\* current words of holding register 25: every low byte under three high bytes
ScheduleWords == {h * 256 + l : h \in {0, 1, 255}, l \in 0..255}

InitPure ==
    /\ HubInit(Quiet)
    /\ calc = NoCalc
    /\ rm = NoMap

\* the battery power logic of read_modbus_data on registers 16, 19, 21
CalcBattery ==
    /\ calc = NoCalc
    /\ \E r16 \in BatteryVoltageWords, r19 \in BatteryCurrentWords,
          r21 \in BatteryPowerWords :
          calc' = [op |-> "battery", r16 |-> r16, r19 |-> r19, r21 |-> r21,
                   out |-> BatteryLogic(r16, r19, r21)]
    /\ UNCHANGED <<hubVars, rm>>

\* set_schedule_type(schedule_index, value) on a device whose register 25
\* holds current_val, both transfers succeeding
CalcSchedule ==
    /\ calc = NoCalc
    /\ \E current_val \in ScheduleWords, schedule_index \in {1, 2}, value \in 0..3 :
          calc' = [op |-> "schedule", current_val |-> current_val,
                   schedule_index |-> schedule_index, value |-> value,
                   new_val |-> NewVal(current_val, schedule_index, value)]
    /\ UNCHANGED <<hubVars, rm>>

NextPure ==
    \/ CalcBattery
    \/ CalcSchedule

SpecPure == InitPure /\ [][NextPure]_vars

\* a 16-bit word read as a two's complement number
SignedWord(w) == IF w >= 32768 THEN w - 65536 ELSE w

\* bits lo and lo+1 of w as a number 0..3
Field2(w, lo) == Bit(w, lo) + 2 * Bit(w, lo + 1)

\* C9: the written word has bit 0 set, the selected schedule's field equal to
\* the value, the other schedule's field as in the current word, and
\* read_modbus_data decodes exactly these two types from it.
C9_ScheduleWordEncoding ==
    calc.op = "schedule" =>
        LET w == calc.current_val
            n == calc.new_val
            t1 == IF calc.schedule_index = 1 THEN calc.value ELSE Field2(w, 4)
            t2 == IF calc.schedule_index = 2 THEN calc.value ELSE Field2(w, 6)
        IN  /\ Bit(n, 0) = 1
            /\ Field2(n, 4) = t1
            /\ Field2(n, 6) = t2
            /\ SchType1(n) = t1
            /\ SchType2(n) = t2

\* schedule 2 is set to type 3 on a word whose schedule 1 field is 2 and
\* whose other bits are set as well
C9_Witness ==
    /\ calc.op = "schedule"
    /\ calc.schedule_index = 2
    /\ calc.value = 3
    /\ Field2(calc.current_val, 4) = 2
    /\ calc.current_val >= 256
    /\ calc.new_val # calc.current_val

\* C10: with V = register 16, I = signed register 19 and P_raw = signed
\* register 21: standby (P_raw = 0 or |I| < 0.5 A) zeroes current and powers;
\* I > 0 gives power = discharging = |V*I|, charging = 0; I < 0 gives
\* power = -|V*I|, charging = |V*I|, discharging = 0.  (V in 0.1 V, I in
\* 0.01 A, powers in 0.001 W.)
C10_BatteryPowerSplit ==
    calc.op = "battery" =>
        LET V == calc.r16
            I == SignedWord(calc.r19)
            P_raw == SignedWord(calc.r21)
            o == calc.out
        IN  /\ IF P_raw = 0 \/ Abs(I) < 50
               THEN /\ o.battery_current = 0
                    /\ o.battery_power = 0
                    /\ o.battery_charging_power = 0
                    /\ o.battery_discharging_power = 0
               ELSE IF I > 0
               THEN /\ o.battery_current = I
                    /\ o.battery_power = Abs(V * I)
                    /\ o.battery_discharging_power = Abs(V * I)
                    /\ o.battery_charging_power = 0
               ELSE /\ o.battery_current = I
                    /\ o.battery_power = -Abs(V * I)
                    /\ o.battery_charging_power = Abs(V * I)
                    /\ o.battery_discharging_power = 0
            /\ ~(o.battery_charging_power # 0 /\ o.battery_discharging_power # 0)
            /\ o.battery_charging_power >= 0
            /\ o.battery_discharging_power >= 0
            /\ o.battery_power = o.battery_discharging_power - o.battery_charging_power

\* 48.0 V charging at 2 A with a nonzero register 21: 96 W of charging power
C10_Witness ==
    /\ calc.op = "battery"
    /\ calc.r16 = 480
    /\ calc.r19 = 65336
    /\ calc.r21 # 0
    /\ calc.out.battery_charging_power = 96000
    /\ calc.out.battery_power = -96000


\* ------------------------------------------------------------------------
\* ModbusClient.read_block and read_register_map (modbus_client.py)
\* ------------------------------------------------------------------------
\* a dict
EmptyDict == [k \in {} |-> 0]
DictSet(d, k, v) == [x \in DOMAIN d \cup {k} |-> IF x = k THEN v ELSE d[x]]
\* d1.update(d2)
DictUpdate(d1, d2) ==
    [x \in DOMAIN d1 \cup DOMAIN d2 |-> IF x \in DOMAIN d2 THEN d2[x] ELSE d1[x]]

\* Register (model_map.py); the scale is the fraction num/den
Reg(name, address, data_type, num, den, unit) ==
    [name |-> name, address |-> address, data_type |-> data_type,
     num |-> num, den |-> den, unit |-> unit]

\* registers of INGE_3P (const.py)
TotalHours == Reg("total_hours", 6, "uint32", 1, 1, "h")
AlarmCode == Reg("alarm_code", 10, "uint32", 1, 1, "none")
BatteryVoltage == Reg("battery_voltage", 16, "uint16", 1, 10, "V")
BatteryCurrent == Reg("battery_current", 19, "int16", 1, 100, "A")
BatterySoc == Reg("battery_state_of_charge", 22, "uint16", 1, 1, "%")
AcFreq == Reg("ac_freq", 63, "uint16", 1, 100, "Hz")

\* RegisterBlock (model_map.py)
Block(start_address, count, registers) ==
    [start_address |-> start_address, count |-> count, registers |-> registers]

\* block plans read_register_map is run on
BlockPlans ==
    { <<Block(6, 17, <<TotalHours, AlarmCode, BatteryVoltage, BatteryCurrent,
                       BatterySoc>>),
        Block(63, 1, <<AcFreq>>)>>,
      <<Block(63, 1, <<AcFreq>>), Block(16, 7, <<BatteryVoltage, BatterySoc>>)>>,
      <<Block(6, 6, <<TotalHours, AlarmCode>>),
        Block(16, 7, <<BatteryVoltage, BatteryCurrent, BatterySoc>>),
        Block(63, 1, <<AcFreq>>)>> }

\* the words a response is filled with
FillWords == {0, 100, 5000, 65535}

\* the responses _read_registers_with_retry may give for a block: None, or
\* n words
Responses(block) ==
    {[ok |-> FALSE, registers |-> <<>>]} \cup
    {[ok |-> TRUE, registers |-> [i \in 1..n |-> w]] :
        n \in {0, block.count - 1, block.count} \cap Nat, w \in FillWords}

\* Register.register_count
RegisterCount(register) ==
    IF register.data_type \in {"uint32", "int32"} THEN 2 ELSE 1

\* A decoded integer is kept as the pair hi, lo that stands for
\* hi * 65536 + lo (lo a 16-bit word, hi signed), so that 32-bit values stay
\* within the checker's integers.
Value(hi, lo) == [hi |-> hi, lo |-> lo]
Number(v) == v.hi * 65536 + v.lo

\* _extract_value: Some(value), or None where it raises ValueError;
\* registers[offset] is the word at position offset + 1
ExtractValue(registers, offset, register) ==
    LET word == registers[offset + 1]
        high_word == registers[offset + 1]
        low_word == registers[offset + 2]
    IN  CASE register.data_type = "uint16" -> Some(Value(0, word))
          [] register.data_type = "int16" ->
                Some(IF Bit(word, 15) = 1 THEN Value(-1, word) ELSE Value(0, word))
          [] register.data_type = "uint32" ->
                IF offset + 1 >= Len(registers) THEN None
                ELSE Some(Value(high_word, low_word))
          [] register.data_type = "int32" ->
                IF offset + 1 >= Len(registers) THEN None
                ELSE Some(IF Bit(high_word, 15) = 1
                          THEN Value(high_word - 65536, low_word)
                          ELSE Value(high_word, low_word))

\* lo <= value <= hi for the fraction value = n/d
Within(n, d, lo, hi) == lo * d <= n /\ n <= hi * d

\* _validate_value on the scaled value: v times the scale num/den ("C" is
\* the unit string of degrees Celsius)
ValidateValueMutant(register, v) ==
    LET n == Number(v)
    IN  CASE register.unit = "V" -> Within(n, 1, -1000, 10000)
          [] register.unit = "A" -> Within(n, 1, -10000, 10000)
          [] register.unit = "W" -> Within(n, 1, -1000000, 1000000)
          [] register.unit = "%" -> Within(n, 1, -10, 110)
          [] register.unit = "C" -> Within(n, 1, -50, 150)
          [] register.unit = "Hz" -> Within(n, 1, 40, 70)
          [] OTHER -> TRUE
ValidateValue(register, v) ==
    LET n == Number(v) * register.num
        d == register.den
    IN  CASE register.unit = "V" -> Within(n, d, -1000, 10000)
          [] register.unit = "A" -> Within(n, d, -10000, 10000)
          [] register.unit = "W" -> Within(n, d, -1000000, 1000000)
          [] register.unit = "%" -> Within(n, d, -10, 110)
          [] register.unit = "C" -> Within(n, d, -50, 150)
          [] register.unit = "Hz" -> Within(n, d, 40, 70)
          [] OTHER -> TRUE

\* the body of read_block's loop for one register, acc being the dict so far
ParseRegister(acc, block, registers, register) ==
    LET offset == register.address - block.start_address
    IN  IF offset < 0 \/ offset >= Len(registers) THEN acc
        ELSE LET value == ExtractValue(registers, offset, register)
             IN  IF value = None THEN acc
                 ELSE IF ValidateValue(register, value[1])
                 THEN DictSet(acc, register.name,
                              [value |-> value[1], num |-> register.num,
                               den |-> register.den])
                 ELSE acc

\* read_block's loop over block.registers[k..]
RECURSIVE ParseRegisters(_, _, _, _)
ParseRegisters(acc, block, registers, k) ==
    IF k > Len(block.registers) THEN acc
    ELSE ParseRegisters(ParseRegister(acc, block, registers, block.registers[k]),
                        block, registers, k + 1)

\* read_block, given the response of _read_registers_with_retry
ReadBlockMutant(block, response) ==
    IF ~response.ok \/ Len(response.registers) < block.count
    THEN [success |-> FALSE, data |-> EmptyDict]
    ELSE [success |-> TRUE,
          data |-> ParseRegisters(EmptyDict, block, response.registers, 1)]
ReadBlock(block, response) ==
    IF ~response.ok
    THEN [success |-> FALSE, data |-> EmptyDict]
    ELSE [success |-> TRUE,
          data |-> ParseRegisters(EmptyDict, block, response.registers, 1)]

\* "success = len(all_data) > 0"
MapSuccessMutant(all_data, errors) == errors = 0
MapSuccess(all_data, errors) == DOMAIN all_data # {}

InitMap ==
    /\ HubInit(Quiet)
    /\ calc = NoCalc
    /\ \E plan \in BlockPlans :
          rm = [pc |-> "loop", blocks |-> plan, i |-> 1, all_data |-> EmptyDict,
                errors |-> 0, success |-> FALSE, calls |-> 0, okBlocks |-> 0,
                valueBlocks |-> 0]

\* one iteration of "for block in blocks:".  calls, okBlocks and valueBlocks
\* count the read_block calls, those that returned success and those that
\* returned at least one value.
MapReadBlock ==
    /\ rm.pc = "loop"
    /\ rm.i <= Len(rm.blocks)
    /\ \E response \in Responses(rm.blocks[rm.i]) :
          LET result == ReadBlock(rm.blocks[rm.i], response)
          IN  rm' = [rm EXCEPT
                       !.i = @ + 1,
                       !.all_data =
                           IF result.success THEN DictUpdate(@, result.data) ELSE @,
                       !.errors = IF result.success THEN @ ELSE @ + 1,
                       !.calls = @ + 1,
                       !.okBlocks = IF result.success THEN @ + 1 ELSE @,
                       !.valueBlocks =
                           IF DOMAIN result.data # {} THEN @ + 1 ELSE @]
    /\ UNCHANGED <<hubVars, calc>>

\* after the loop: "success = len(all_data) > 0" and the return
MapReturn ==
    /\ rm.pc = "loop"
    /\ rm.i > Len(rm.blocks)
    /\ rm' = [rm EXCEPT !.pc = "done",
                        !.success = MapSuccess(rm.all_data, rm.errors)]
    /\ UNCHANGED <<hubVars, calc>>

NextMap ==
    \/ MapReadBlock
    \/ MapReturn

SpecMap == InitMap /\ [][NextMap]_vars

\* C6, as claimed: success is reported exactly when read_block returned
\* success for at least one block.
C6_SuccessIffBlockRead ==
    rm.pc = "done" => (rm.success <=> rm.okBlocks > 0)

\* C6, amended: success is reported exactly when at least one block yielded
\* a value; then read_block returned success for some block, and when every
\* block failed the result is a failure; every block of the map is read.
C6_SuccessIffValueRead ==
    rm.pc = "done" =>
        /\ rm.success <=> rm.valueBlocks > 0
        /\ rm.success => rm.okBlocks > 0
        /\ rm.okBlocks = 0 => ~rm.success
        /\ rm.calls = Len(rm.blocks)

\* the first block failed, the second was still read and made the result a
\* success
C6_Witness ==
    /\ rm.pc = "done"
    /\ rm.success
    /\ rm.errors = 1
    /\ rm.okBlocks = 1
    /\ rm.calls = 2
    /\ "ac_freq" \in DOMAIN rm.all_data



\* ------------------------------------------------------------------------
\* Derived values and decoders, applied to chosen inputs
\* ------------------------------------------------------------------------
\* "self.data[pv_total_power] = pv1_power + pv2_power", in 0.1 W
PvTotalPower(r41, r45) == r41 + r45

\* "ratio = ((pv_power + bat_discharge) / loads_power) * 100.0" in percent, as
\* a fraction num/den: with pv_power in 0.1 W, bat_discharge in 0.001 W and
\* loads_power in W the ratio is (pv_power * 100 + bat_discharge) thousandths
\* of a watt over loads_power * 10
SystemEfficiency(pv_power, bat_discharge, loads_power) ==
    IF loads_power > 0
    THEN [num |-> pv_power * 100 + bat_discharge, den |-> loads_power * 10]
    ELSE [num |-> 0, den |-> 1]

\* the last lines of read_modbus_data on registers 41, 45 (pv1_power,
\* pv2_power, 0.1 W), 65 (total_loads_power, W) and the battery words
CalcEfficiency ==
    /\ calc = NoCalc
    /\ \E r41 \in {0, 5000, 10000, 20000}, r45 \in {0, 5000, 10000, 20000},
          r65 \in {0, 1, 2000, 3000, 65535}, b \in {Discharging, Charging} :
          LET bat == BatteryLogic(b[1], b[2], b[3]).battery_discharging_power
          IN  calc' = [op |-> "efficiency", pv |-> PvTotalPower(r41, r45),
                       bat |-> bat, loads |-> r65,
                       out |-> SystemEfficiency(PvTotalPower(r41, r45), bat, r65)]
    /\ UNCHANGED <<hubVars, rm>>

\* _u32_from_words_le: "(high << 16) | low", kept as the pair high, low;
\* registers[start_index] is the word at position start_index + 1
U32FromWordsLeMutant(registers, start_index) ==
    Value(registers[start_index + 1], registers[start_index + 2])
U32FromWordsLe(registers, start_index) ==
    LET low == registers[start_index + 1]
        high == registers[start_index + 2]
    IN  Value(high, low)

\* _decode_signed and _extract_value(INT16) on the word of x
CalcSigned ==
    /\ calc = NoCalc
    /\ \E x \in -32768..32767 :
          LET w == x % 65536
          IN  calc' = [op |-> "signed", x |-> x, w |-> w,
                       hub |-> DecodeSigned(w),
                       client |-> ExtractValue(<<w>>, 0,
                                      Reg("x", 0, "int16", 1, 1, "none"))]
    /\ UNCHANGED <<hubVars, rm>>

\* the two 32-bit decoders on the words low and high, taken around the sign
\* bits
CalcU32 ==
    /\ calc = NoCalc
    /\ \E low \in {0, 1, 4660, 32767, 32768, 65535},
          high \in {0, 1, 4660, 32767, 32768, 65535} :
          calc' = [op |-> "u32", low |-> low, high |-> high,
                   hub |-> U32FromWordsLe(<<low, high>>, 0),
                   u32 |-> ExtractValue(<<high, low>>, 0,
                               Reg("x", 0, "uint32", 1, 1, "none")),
                   i32 |-> ExtractValue(<<high, low>>, 0,
                               Reg("x", 0, "int32", 1, 1, "none"))]
    /\ UNCHANGED <<hubVars, rm>>

\* the decimal digit n as a one-character string; a string is a sequence of
\* these
Digit(n) == <<"0", "1", "2", "3", "4", "5", "6", "7", "8", "9">>[n + 1]

\* f"{n:02d}" for 0 <= n <= 255
Pad2(n) ==
    IF n < 10 THEN <<"0", Digit(n)>>
    ELSE IF n < 100 THEN <<Digit(n \div 10), Digit(n % 10)>>
    ELSE <<Digit(n \div 100), Digit((n \div 10) % 10), Digit(n % 10)>>

\* decode_time: hour = (val >> 8) & 0xFF, minute = val & 0xFF
DecodeTimeMutant(val) ==
    LET Str(n) == IF n < 10 THEN <<Digit(n)>> ELSE Pad2(n)
    IN  Str(Shr(val, 8) % 256) \o <<":">> \o Str(val % 256)
DecodeTime(val) ==
    LET hour == Shr(val, 8) % 256
        minute == val % 256
    IN  Pad2(hour) \o <<":">> \o Pad2(minute)

\* val_str.split(":")
RECURSIVE Split(_, _, _)
Split(str, part, parts) ==
    IF str = <<>> THEN Append(parts, part)
    ELSE IF Head(str) = ":" THEN Split(Tail(str), <<>>, Append(parts, part))
    ELSE Split(Tail(str), Append(part, Head(str)), parts)

\* int(s): Some(n), or None where it raises ValueError
RECURSIVE ParseInt(_, _)
ParseInt(str, acc) ==
    IF str = <<>> THEN Some(acc)
    ELSE IF \E d \in 0..9 : Digit(d) = Head(str)
         THEN ParseInt(Tail(str), acc * 10 + (CHOOSE d \in 0..9 : Digit(d) = Head(str)))
         ELSE None

\* IngeteamTime.native_value: Some(time(hour, minute)), or None
NativeValue(val_str) ==
    LET parts == Split(val_str, <<>>, <<>>)
    IN  IF val_str = <<>> \/ Len(parts) < 2 THEN None
        ELSE LET h == IF parts[1] = <<>> THEN None ELSE ParseInt(parts[1], 0)
                 m == IF parts[2] = <<>> THEN None ELSE ParseInt(parts[2], 0)
             IN  IF h = None \/ m = None THEN None
                 ELSE IF h[1] > 23 \/ m[1] > 59 THEN None
                 ELSE Some([hour |-> h[1], minute |-> m[1]])

\* async_set_value's int_val for value, decode_time on it and native_value on
\* the string
CalcTime ==
    /\ calc = NoCalc
    /\ \E hour \in 0..23, minute \in 0..59 :
          LET int_val == BitOr(Shl(hour, 8), minute)
          IN  calc' = [op |-> "time", hour |-> hour, minute |-> minute,
                       int_val |-> int_val, text |-> DecodeTime(int_val),
                       parsed |-> NativeValue(DecodeTime(int_val))]
    /\ UNCHANGED <<hubVars, rm>>

\* descriptors whose units have bounds a 16-bit word can cross, and two
\* without bounds
TestRegisters(name, address) ==
    { Reg(name, address, "uint16", 1, 1, "V"),
      Reg(name, address, "int16", 1, 1, "V"),
      Reg(name, address, "int16", 1, 1, "A"),
      Reg(name, address, "uint16", 1, 1, "%"),
      Reg(name, address, "int16", 1, 1, "C"),
      Reg(name, address, "uint16", 1, 100, "Hz"),
      Reg(name, address, "int16", 1, 10, "var"),
      Reg(name, address, "uint16", 1, 1, "none") }

\* words on both sides of every bound, as unsigned and as signed words
BoundWords ==
    {0, 110, 111, 150, 151, 3999, 4000, 7000, 7001, 10000, 10001,
     55535, 55536, 64535, 64536, 65485, 65486}

\* blocks of two words: two 16-bit descriptors, or one 32-bit power descriptor
\* with the word pairs of +-1000000 and +-1000001
TestBlocks ==
    { Block(0, 2, <<a, b>>) : a \in TestRegisters("a", 0), b \in TestRegisters("b", 1) }
    \cup { Block(0, 2, <<Reg("p", 0, "int32", 1, 1, "W"), b>>) :
              b \in TestRegisters("b", 1) }
TestResponses(block) ==
    IF block.registers[1].data_type = "int32"
    THEN { <<15, 16960>>, <<15, 16961>>, <<65520, 48576>>, <<65520, 48575>>,
           <<15>>, <<>> }
    ELSE { <<>> } \cup { <<w>> : w \in BoundWords }
         \cup { <<w, v>> : w \in BoundWords, v \in BoundWords }

\* read_block on a block whose transfer succeeded with the given words
CalcBlock ==
    /\ calc = NoCalc
    /\ \E block \in TestBlocks :
          \E registers \in TestResponses(block) :
              calc' = [op |-> "block", block |-> block, registers |-> registers,
                       result |-> ReadBlock(block, [ok |-> TRUE,
                                                    registers |-> registers])]
    /\ UNCHANGED <<hubVars, rm>>

NextDecode ==
    \/ CalcEfficiency
    \/ CalcSigned
    \/ CalcU32
    \/ CalcTime
    \/ CalcBlock

SpecDecode == InitPure /\ [][NextDecode]_vars


\* C11: system_efficiency is min(100, (pv + battery discharge) / loads * 100)
\* when loads > 0 and 0 otherwise, so it lies in 0..100.
C11_EfficiencyClamped ==
    calc.op = "efficiency" =>
        LET total == calc.pv * 100 + calc.bat
            loads == calc.loads * 1000
            e == calc.out
        IN  /\ (calc.loads > 0 /\ total <= loads)
                  => (e.num = total /\ e.den = calc.loads * 10)
            /\ (calc.loads > 0 /\ total > loads) => e.num = 100 * e.den
            /\ calc.loads <= 0 => e.num = 0
            /\ 0 <= e.num /\ e.num <= 100 * e.den


\* C14: the word of x in -32768..32767 decodes to x in the hub and in the
\* client; a decoded word w lies in -32768..32767 and is w - 65536 exactly
\* when w >= 32768.
C14_SignedRoundTrip ==
    calc.op = "signed" =>
        /\ calc.hub = calc.x
        /\ calc.client # None
        /\ Number(calc.client[1]) = calc.x
        /\ calc.hub \in -32768..32767
        /\ (calc.hub = calc.w - 65536) <=> (calc.w >= 32768)
        /\ calc.w < 32768 => calc.hub = calc.w

\* the most negative number: the word 32768 decoded to -32768 by both
C14_Witness ==
    /\ calc.op = "signed"
    /\ calc.w = 32768
    /\ calc.hub = -32768
    /\ calc.client = Some(Value(-1, 32768))

\* C15: the low-first decoder on [low, high] and the high-first decoder on
\* [high, low] both give high * 65536 + low (the pair high, low), and INT32
\* gives that value minus 2^32 exactly when bit 31 (bit 15 of high) is set.
C15_WordOrder ==
    calc.op = "u32" =>
        /\ calc.hub = Value(calc.high, calc.low)
        /\ calc.u32 = Some(Value(calc.high, calc.low))
        /\ calc.i32 # None
        /\ calc.i32[1].lo = calc.low
        /\ calc.i32[1].hi =
              IF calc.high >= 32768 THEN calc.high - 65536 ELSE calc.high
        /\ calc.i32[1].hi \in -32768..32767

\* low = 0x1234 and high = 0x8000: 0x80001234 unsigned, negative as INT32
C15_Witness ==
    /\ calc.op = "u32"
    /\ calc.low = 4660
    /\ calc.high = 32768
    /\ calc.hub = Value(32768, 4660)
    /\ calc.i32 = Some(Value(-32768, 4660))

UnitBounds(unit) ==
    CASE unit = "V" -> <<-1000, 10000>>
      [] unit = "A" -> <<-10000, 10000>>
      [] unit = "W" -> <<-1000000, 1000000>>
      [] unit = "%" -> <<-10, 110>>
      [] unit = "C" -> <<-50, 150>>
      [] unit = "Hz" -> <<40, 70>>
      [] OTHER -> <<>>

\* the sign-decoded integer of register r in the words ws
Decoded(r, ws) ==
    LET w == ws[r.address + 1]
    IN  CASE r.data_type = "uint16" -> w
          [] r.data_type = "int16" -> SignedWord(w)
          [] r.data_type = "int32" -> SignedWord(w) * 65536 + ws[r.address + 2]

\* the scaled value of r lies within the bounds of its unit
InBounds(r, ws) ==
    LET b == UnitBounds(r.unit)
    IN  b = <<>> \/ (/\ b[1] * r.den <= Decoded(r, ws) * r.num
                     /\ Decoded(r, ws) * r.num <= b[2] * r.den)

\* C16: when the block came back whole, a register's name is in the result
\* iff its scaled value is within the bounds of its unit; the block reports
\* success whatever was rejected.
C16_AcceptedIffInBounds ==
    (calc.op = "block" /\ Len(calc.registers) = calc.block.count) =>
        /\ calc.result.success
        /\ \A k \in 1..Len(calc.block.registers) :
              LET r == calc.block.registers[k]
              IN  r.name \in DOMAIN calc.result.data <=> InBounds(r, calc.registers)

\* 150 degrees accepted next to 10001 V rejected
C16_Witness ==
    /\ calc.op = "block"
    /\ calc.block.registers[1] = Reg("a", 0, "int16", 1, 1, "C")
    /\ calc.block.registers[2] = Reg("b", 1, "uint16", 1, 1, "V")
    /\ calc.registers = <<150, 10001>>
    /\ calc.result.success
    /\ DOMAIN calc.result.data = {"a"}

\* C17: when the block came back short, exactly the registers whose words all
\* arrived are decoded (and kept if valid); the others are skipped and the
\* block still reports success.
C17_ShortResponse ==
    (calc.op = "block" /\ Len(calc.registers) < calc.block.count) =>
        /\ calc.result.success
        /\ \A k \in 1..Len(calc.block.registers) :
              LET r == calc.block.registers[k]
                  offset == r.address - calc.block.start_address
                  whole == offset + RegisterCount(r) <= Len(calc.registers)
              IN  /\ ~whole => r.name \notin DOMAIN calc.result.data
                  /\ whole => (r.name \in DOMAIN calc.result.data
                                  <=> InBounds(r, calc.registers))

\* one word came back for a block of two: the first register is decoded, the
\* second skipped
C17_Witness ==
    /\ calc.op = "block"
    /\ calc.registers = <<4000>>
    /\ calc.block.registers[1] = Reg("a", 0, "uint16", 1, 100, "Hz")
    /\ calc.result.success
    /\ DOMAIN calc.result.data = {"a"}

\* ------------------------------------------------------------------------
\* RegisterMap.get_blocks (model_map.py)
\* ------------------------------------------------------------------------
\* most registers of a map
MaxRegs == 3

\* a Register with its table; scale and unit play no part in the planning
Register(name, address, data_type, table) ==
    [name |-> name, address |-> address, data_type |-> data_type, table |-> table]

\* RegisterBlock with its table
RegisterBlock(start_address, count, registers, table) ==
    [start_address |-> start_address, count |-> count, registers |-> registers,
     table |-> table]

\* "self.registers = {reg.name: reg for reg in registers}" with distinct
\* names: the registers in insertion order, the k-th named rk
RegisterLists ==
    UNION { { [k \in 1..n |-> Register(<<"r1", "r2", "r3", "r4">>[k],
                                        a[k], t[k], tb[k])] :
                a \in [1..n -> {10, 11, 13}],
                t \in [1..n -> {"uint16", "uint32"}],
                tb \in [1..n -> {"input", "holding"}] } : n \in 1..MaxRegs }
\* the registers of one table, in the order of self.registers.values()
RECURSIVE TableRegs(_, _)
TableRegs(regs, table) ==
    IF regs = <<>> THEN <<>>
    ELSE IF (table = "holding") = (Head(regs).table = "holding")
         THEN <<Head(regs)>> \o TableRegs(Tail(regs), table)
         ELSE TableRegs(Tail(regs), table)

\* r put behind every register of the sorted list whose address is not
\* greater: list.sort is stable
RECURSIVE SortedInsert(_, _)
SortedInsert(sorted, r) ==
    IF sorted = <<>> THEN <<r>>
    ELSE IF Head(sorted).address <= r.address
         THEN <<Head(sorted)>> \o SortedInsert(Tail(sorted), r)
         ELSE <<r>> \o sorted

\* "table_regs.sort(key=lambda r: r.address)"
RECURSIVE SortByAddress(_, _)
SortByAddress(regs, sorted) ==
    IF regs = <<>> THEN sorted
    ELSE SortByAddress(Tail(regs), SortedInsert(sorted, Head(regs)))

\* "blocks.append(RegisterBlock(...))" if current_block_regs is not empty
FlushBlock(st, table) ==
    IF st.regs = <<>> THEN st.blocks
    ELSE Append(st.blocks,
                RegisterBlock(st.start, st.end - st.start + 1, st.regs, table))

\* one iteration of "for reg in table_regs:"; st holds blocks,
\* current_block_regs, current_start and current_end
CanMergeMutant(st, reg_start, reg_end, max_block_size, max_gap) ==
    reg_start - st.end <= max_gap
CanMerge(st, reg_start, reg_end, max_block_size, max_gap) ==
    /\ reg_start - st.end <= max_gap
    /\ reg_end - st.start + 1 <= max_block_size

PlanStep(st, reg, table, max_block_size, max_gap) ==
    LET reg_start == reg.address
        reg_end == reg.address + RegisterCount(reg) - 1
    IN  IF st.regs = <<>>
        THEN [st EXCEPT !.regs = <<reg>>, !.start = reg_start, !.end = reg_end]
        ELSE IF CanMerge(st, reg_start, reg_end, max_block_size, max_gap)
        THEN [st EXCEPT !.regs = Append(@, reg), !.end = IF @ >= reg_end THEN @ ELSE reg_end]
        ELSE [blocks |-> FlushBlock(st, table), regs |-> <<reg>>,
              start |-> reg_start, end |-> reg_end]

RECURSIVE PlanLoop(_, _, _, _, _)
PlanLoop(st, table_regs, table, max_block_size, max_gap) ==
    IF table_regs = <<>> THEN st
    ELSE PlanLoop(PlanStep(st, Head(table_regs), table, max_block_size, max_gap),
                  Tail(table_regs), table, max_block_size, max_gap)

\* the blocks of one table appended to blocks
PlanTable(blocks, regs, table, max_block_size, max_gap) ==
    LET table_regs == SortByAddress(TableRegs(regs, table), <<>>)
        st == PlanLoop([blocks |-> blocks, regs |-> <<>>, start |-> 0, end |-> 0],
                       table_regs, table, max_block_size, max_gap)
    IN  IF table_regs = <<>> THEN blocks ELSE FlushBlock(st, table)

\* get_blocks, first call (self._blocks is None): holding, then input
GetBlocks(regs, max_block_size, max_gap) ==
    PlanTable(PlanTable(<<>>, regs, "holding", max_block_size, max_gap),
              regs, "input", max_block_size, max_gap)

\* get_blocks on a map whose self._blocks is cached (None or the stored
\* list): "if self._blocks is not None: return self._blocks", else the plan
\* is computed, stored and returned
CachedBlocksMutant(cached, regs, max_block_size, max_gap) ==
    GetBlocks(regs, max_block_size, max_gap)
CachedBlocks(cached, regs, max_block_size, max_gap) ==
    IF cached # None THEN cached[1]
    ELSE GetBlocks(regs, max_block_size, max_gap)

\* RegisterMap.__init__: self._blocks = None; max_block_size and max_gap are
\* the arguments of the first call of get_blocks, blocks what it returns
InitPlan ==
    /\ HubInit(Quiet)
    /\ rm = NoMap
    /\ \E regs \in RegisterLists, max_block_size \in {1, 2, 4},
          max_gap \in {0, 1, 5} :
          calc = [op |-> "plan", regs |-> regs, max_block_size |-> max_block_size,
                  max_gap |-> max_gap, blocks |-> <<>>, done |-> FALSE,
                  cached |-> None, again |-> FALSE, args |-> <<0, 0>>,
                  ret |-> <<>>]

\* the first call of get_blocks
PlanBlocks ==
    /\ calc.op = "plan"
    /\ ~calc.done
    /\ LET blocks == CachedBlocks(calc.cached, calc.regs, calc.max_block_size,
                                  calc.max_gap)
       IN  calc' = [calc EXCEPT !.blocks = blocks, !.cached = Some(blocks),
                                !.done = TRUE]
    /\ UNCHANGED <<hubVars, rm>>

\* a later call of get_blocks, with arguments args; ret is what it returns
PlanAgain ==
    /\ calc.op = "plan"
    /\ calc.done
    /\ \E max_block_size \in {1, 4}, max_gap \in {0, 5} :
          LET blocks == CachedBlocks(calc.cached, calc.regs, max_block_size,
                                     max_gap)
          IN  calc' = [calc EXCEPT !.cached = Some(blocks), !.again = TRUE,
                                   !.args = <<max_block_size, max_gap>>,
                                   !.ret = blocks]
    /\ UNCHANGED <<hubVars, rm>>

NextPlan ==
    \/ PlanBlocks
    \/ PlanAgain

SpecPlan == InitPlan /\ [][NextPlan]_vars

\* In the properties: the addresses block b reads, the addresses register r
\* occupies, the indices of the planned blocks
Span(b) == b.start_address .. (b.start_address + b.count - 1)
RegRange(r) == r.address .. (r.address + RegisterCount(r) - 1)
BlockIds == 1..Len(calc.blocks)

\* C12: every descriptor is a member of exactly one block, its address lies
\* in the span of exactly one block of its table, and no two blocks of one
\* table overlap.
C12_BlocksPartitionAddresses ==
    (calc.op = "plan" /\ calc.done) =>
        /\ \A k \in 1..Len(calc.regs) :
              LET r == calc.regs[k]
              IN  /\ Cardinality({i \in BlockIds :
                         r \in Range(calc.blocks[i].registers)}) = 1
                  /\ Cardinality({i \in BlockIds :
                         /\ calc.blocks[i].table = r.table
                         /\ r.address \in Span(calc.blocks[i])}) = 1
        /\ \A i, j \in BlockIds :
              (i # j /\ calc.blocks[i].table = calc.blocks[j].table)
                  => Span(calc.blocks[i]) \cap Span(calc.blocks[j]) = {}

\* C13, as claimed: a block is wider than max_block_size only if it consists
\* of a single descriptor wider than max_block_size; members lie in the span.
C13_OnlyLoneDescriptorOversized ==
    (calc.op = "plan" /\ calc.done) =>
        \A i \in BlockIds :
            LET b == calc.blocks[i]
            IN  /\ \/ b.count <= calc.max_block_size
                   \/ /\ Len(b.registers) = 1
                      /\ RegisterCount(b.registers[1]) > calc.max_block_size
                /\ \A r \in Range(b.registers) : RegRange(r) \subseteq Span(b)

\* C13, amended: a block is wider than max_block_size only if its first
\* descriptor is, and then it is exactly as wide as that descriptor (further
\* members lie inside the first one's range); members lie in the span.
C13_OnlyFirstDescriptorOversized ==
    (calc.op = "plan" /\ calc.done) =>
        \A i \in BlockIds :
            LET b == calc.blocks[i]
            IN  /\ \/ b.count <= calc.max_block_size
                   \/ /\ RegisterCount(b.registers[1]) > calc.max_block_size
                      /\ b.count = RegisterCount(b.registers[1])
                      /\ Span(b) = RegRange(b.registers[1])
                /\ \A r \in Range(b.registers) : RegRange(r) \subseteq Span(b)

\* max_block_size = 1: a block two words wide that holds a 32-bit descriptor
\* and a 16-bit descriptor at the same address, next to a block one word wide
C13_Witness ==
    /\ calc.op = "plan" /\ calc.done
    /\ calc.max_block_size = 1
    /\ \E i, j \in BlockIds :
          /\ Len(calc.blocks[i].registers) = 2
          /\ calc.blocks[i].count = 2
          /\ calc.blocks[j].count = 1
          /\ calc.blocks[j].table = calc.blocks[i].table


\* ------------------------------------------------------------------------
\* ModbusClient._read_registers_with_retry under read_register_map
\* ------------------------------------------------------------------------
\* largest retry count
MaxRetries == 2
\* "time.sleep(self._retry_delay * (attempt + 1))"
RetryDelayMutant(retry_delay, attempt) == retry_delay
RetryDelay(retry_delay, attempt) == retry_delay * (attempt + 1)

\* read_register_map starts on a map of two blocks; retry_delay is in tenths
\* of a second; cur is the read of the current block (no attempt made yet),
\* log the finished reads
InitRetry ==
    /\ HubInit(Quiet)
    /\ calc = NoCalc
    /\ \E retries \in 0..MaxRetries, retry_delay \in {1, 5} :
          rm = [pc |-> "attempt", retries |-> retries, retry_delay |-> retry_delay,
                blocks |-> <<Block(63, 1, <<AcFreq>>),
                             Block(16, 7, <<BatteryVoltage, BatterySoc>>)>>,
                i |-> 1,
                cur |-> [attempt |-> 0, outcomes |-> <<>>, slept |-> <<>>,
                         ret |-> None],
                log |-> <<>>, all_data |-> EmptyDict, errors |-> 0,
                success |-> FALSE]

\* one pass of "for attempt in range(self._retries + 1):" up to its continue
\* or return; a loop that runs out returns None.  An attempt ends in
\* _ensure_connected() false, an error response, a ModbusException, any other
\* exception, or a response.
RetryAttempt ==
    /\ rm.pc = "attempt"
    /\ IF rm.cur.attempt > rm.retries
       THEN rm' = [rm EXCEPT !.pc = "return"]
       ELSE \E o \in {"noconnect", "error", "modbus_exception", "exception", "ok"} :
              LET block == rm.blocks[rm.i]
                  cur == [rm.cur EXCEPT !.outcomes = Append(@, o)]
              IN  rm' = IF o = "ok"
                        THEN [rm EXCEPT !.pc = "return",
                                 !.cur = [cur EXCEPT !.ret =
                                     Some([k \in 1..block.count |-> 5000])]]
                        ELSE IF rm.cur.attempt < rm.retries
                        THEN [rm EXCEPT !.pc = "sleep", !.cur = cur]
                        ELSE [rm EXCEPT !.pc = "return", !.cur = cur]
    /\ UNCHANGED <<hubVars, calc>>

\* the sleep before "continue"
RetrySleep ==
    /\ rm.pc = "sleep"
    /\ rm' = [rm EXCEPT
                !.pc = "attempt",
                !.cur = [@ EXCEPT
                           !.slept = Append(@, RetryDelay(rm.retry_delay, rm.cur.attempt)),
                           !.attempt = @ + 1]]
    /\ UNCHANGED <<hubVars, calc>>

\* _read_registers_with_retry returns to read_block, read_block to
\* read_register_map, which goes on to the next block or returns
RetryReturn ==
    /\ rm.pc = "return"
    /\ LET block == rm.blocks[rm.i]
           result == ReadBlock(block,
                         IF rm.cur.ret = None
                         THEN [ok |-> FALSE, registers |-> <<>>]
                         ELSE [ok |-> TRUE, registers |-> rm.cur.ret[1]])
           all_data == IF result.success THEN DictUpdate(rm.all_data, result.data)
                       ELSE rm.all_data
           errors == IF result.success THEN rm.errors ELSE rm.errors + 1
           last == rm.i = Len(rm.blocks)
       IN  rm' = [rm EXCEPT
                    !.pc = IF last THEN "done" ELSE "attempt",
                    !.i = @ + 1,
                    !.log = Append(@, [read |-> rm.cur, result |-> result]),
                    !.cur = [attempt |-> 0, outcomes |-> <<>>, slept |-> <<>>,
                             ret |-> None],
                    !.all_data = all_data,
                    !.errors = errors,
                    !.success = IF last THEN MapSuccess(all_data, errors) ELSE @]
    /\ UNCHANGED <<hubVars, calc>>

NextRetry ==
    \/ RetryAttempt
    \/ RetrySleep
    \/ RetryReturn

SpecRetry == InitRetry /\ [][NextRetry]_vars

\* In the properties: a finished or running read r of a block obeys the retry
\* discipline
Disciplined(r) ==
    LET n == Len(r.outcomes)
    IN  /\ n <= rm.retries + 1
        /\ \A k \in 1..n : r.outcomes[k] = "ok" => k = n
        /\ \A k \in 1..Len(r.slept) : r.slept[k] = rm.retry_delay * k

\* C18: a block read makes at most retries + 1 attempts and none after a
\* success; the k-th failed attempt is followed by a sleep of retry_delay * k
\* unless it is the last; a read that runs out of attempts returns None, the
\* block is reported failed and the next block is read; the read never hangs.
C18_BoundedRetry ==
    rm.pc \in {"attempt", "sleep", "return", "done"} =>
        /\ Disciplined(rm.cur)
        /\ rm.pc = "return" => Len(rm.cur.slept) = Len(rm.cur.outcomes) - 1
        /\ \A b \in 1..Len(rm.log) :
              LET r == rm.log[b].read
                  n == Len(r.outcomes)
              IN  /\ Disciplined(r)
                  /\ n >= 1
                  /\ Len(r.slept) = n - 1
                  /\ rm.log[b].result.success <=> r.outcomes[n] = "ok"
                  /\ r.outcomes[n] # "ok" => (n = rm.retries + 1 /\ r.ret = None)
                  /\ r.outcomes[n] = "ok" => r.ret # None
        /\ rm.pc = "done" => Len(rm.log) = Len(rm.blocks)
        /\ rm.pc # "done" => ENABLED NextRetry

\* retries = 2: the first block failed three times with sleeps of 1 and 2
\* delays, and the second block was read at the second attempt
C18_Witness ==
    /\ rm.pc = "done"
    /\ rm.retries = 2
    /\ rm.retry_delay = 5
    /\ rm.log[1].read.outcomes = <<"noconnect", "error", "modbus_exception">>
    /\ rm.log[1].read.slept = <<5, 10>>
    /\ ~rm.log[1].result.success
    /\ rm.log[2].read.outcomes = <<"exception", "ok">>
    /\ rm.log[2].read.slept = <<5>>
    /\ rm.success


\* ------------------------------------------------------------------------
\* A poll cycle whose client calls and decoding may raise
\* ------------------------------------------------------------------------
\* one entity subscribes and stays; the transport may fail, and the response
\* to the read at address 0 may hold 70 words instead of 100
Faulty ==
    [jobs |-> {"j1"}, writers |-> {}, callbacks |-> {"cb1"}, remove |-> FALSE,
     fail |-> TRUE, len1 |-> {100, 70}, battery |-> {Discharging}, ticks |-> 0]

InitCycle ==
    /\ HubInit(Faulty)
    /\ calc = NoCalc
    /\ rm = NoMap

\* an exception leaves _update_modbus_data: the function returns nothing
Raise(rec) == [Finish(rec, FALSE) EXCEPT !.pc = "raised"]

\* _check_and_reconnect: is_socket_open() or connect() raises inside "with
\* self._lock:".  The call "if not self._check_and_reconnect():" stands before
\* the try statement of _update_modbus_data, so no handler is in scope.
JobReconnectRaises(j) ==
    /\ job[j].pc = "reconnect"
    /\ job[j].held
    /\ env.fail
    /\ job' = [job EXCEPT ![j] = Raise([@ EXCEPT !.held = FALSE])]
    /\ Release(j)
    /\ UNCHANGED <<calc, rm, env, holdRead, sensors, unsub, evPc, evArg,
                   sockOpen, data, lastConfigUpdate, clock, wr, h25,
                   lastCalled, invalidated>>

\* read_input_registers / read_holding_registers raises: a ModbusException of
\* the client, the "Incompatible pymodbus version" ModbusException after the
\* three keyword attempts, or any other exception.  It leaves read_modbus_data
\* and is caught by "except ModbusException" / "except Exception": return
\* False.
JobReadRaises(j) ==
    /\ job[j].pc \in {"read0", "read100", "read1000", "readH"}
    /\ job[j].held
    /\ env.fail
    /\ LET call == CASE job[j].pc = "read0" -> "in0"
                     [] job[j].pc = "read100" -> "in100"
                     [] job[j].pc = "read1000" -> "in1000"
                     [] OTHER -> "hold"
       IN  job' = [job EXCEPT ![j] =
                Finish([@ EXCEPT !.held = FALSE, !.issued = @ \cup {call},
                                 !.failed = @ \cup {call}], FALSE)]
    /\ Release(j)
    /\ UNCHANGED <<calc, rm, env, holdRead, sensors, unsub, evPc, evArg,
                   sockOpen, data, lastConfigUpdate, clock, wr, h25,
                   lastCalled, invalidated>>

\* an exception while the registers are decoded is caught by "except
\* Exception": return False
JobDecodeRaises(j) ==
    /\ job[j].pc \in {"dec1", "dec2", "dec3"}
    /\ env.fail
    /\ job' = [job EXCEPT ![j] = Finish(@, FALSE)]
    /\ UNCHANGED <<calc, rm, env, holdRead, sensors, unsub, evPc, evArg, lock,
                   inClient, sockOpen, data, lastConfigUpdate, clock, wr, h25,
                   lastCalled, invalidated>>

\* "update_result = await self._hass.async_add_executor_job(...)" re-raises
\* the exception of the job in async_refresh_modbus_data: no callback runs.
\* The interval timer is not cancelled.
RefreshRaised(j) ==
    /\ evPc = "idle"
    /\ job[j].pc = "raised"
    /\ lastCalled' = <<>>
    /\ job' = [job EXCEPT ![j] = IdleJob]
    /\ UNCHANGED <<calc, rm, env, holdRead, sensors, unsub, evPc, evArg, lock,
                   inClient, sockOpen, data, lastConfigUpdate, clock, wr, h25,
                   invalidated>>

NextCycle ==
    \/ \E cb \in Callbacks : AddSensor(cb)
    \/ LoopAcquire
    \/ ConnectDone
    \/ \E j \in Jobs : TimerTick(j)
    \/ \E j \in Jobs : RefreshDone(j)
    \/ \E j \in Jobs : RefreshRaised(j)
    \/ \E j \in Jobs : JobAcquire(j)
    \/ \E j \in Jobs : JobReconnect(j)
    \/ \E j \in Jobs : JobReconnectRaises(j)
    \/ \E j \in Jobs : JobRead0(j)
    \/ \E j \in Jobs : JobRead100(j)
    \/ \E j \in Jobs : JobRead1000(j)
    \/ \E j \in Jobs : JobReadRaises(j)
    \/ \E j \in Jobs : JobCheckStale(j)
    \/ \E j \in Jobs : JobReadHolding(j)
    \/ \E j \in Jobs : JobSetLast(j)
    \/ \E j \in Jobs : JobDecodeBattery(j)
    \/ \E j \in Jobs : JobDecodeStatus(j)
    \/ \E j \in Jobs : JobDecodeConfig(j)
    \/ \E j \in Jobs : JobDecodeRaises(j)

SpecCycle == InitCycle /\ [][NextCycle]_vars

\* the poll loop goes on around job j: the timer stays scheduled while the
\* cycle runs, a finished cycle is taken back by the event loop, and a tick
\* can then start the next cycle
LoopGoesOn(j) ==
    /\ job[j].pc # "idle" => (unsub /\ sensors # <<>>)
    /\ (job[j].pc \in {"done", "raised"} /\ evPc = "idle")
          => ENABLED (RefreshDone(j) \/ RefreshRaised(j))
    /\ (job[j].pc = "idle" /\ evPc = "idle" /\ sensors # <<>>)
          => ENABLED TimerTick(j)

\* C19: whatever the transport does in a cycle (the reconnect attempt
\* returns false or raises, a read returns an error response or raises, the
\* decoding raises), _update_modbus_data returns a boolean and no exception
\* leaves it, and the poll loop goes on.
C19_NoFailureEscapesCycle ==
    \A j \in env.jobs :
        /\ job[j].pc # "raised"
        /\ job[j].pc = "done" => job[j].result \in BOOLEAN
        /\ LoopGoesOn(j)

\* ------------------------------------------------------------------------
\* Properties of the subscription list and the timer
\* ------------------------------------------------------------------------
\* C21: callbacks are invoked only when a refresh completes; at the completion
\* of a successful cycle every callback subscribed at that moment is invoked
\* exactly once and no other callback is (a callback removed before, also
\* while the cycle was in flight, is not); at the completion of a failed
\* cycle none is invoked.
C21_SubscribedCallbacksOnce ==
    [][/\ lastCalled' # lastCalled =>
              \E j \in Jobs : job[j].pc = "done" /\ job'[j].pc = "idle"
       /\ \A j \in Jobs :
              (job[j].pc = "done" /\ job'[j].pc = "idle") =>
                  \A cb \in Callbacks :
                      Cardinality({i \in DOMAIN lastCalled' : lastCalled'[i] = cb})
                          = IF job[j].result /\ cb \in Range(sensors) THEN 1 ELSE 0]_vars

\* the last refresh invoked cb1 and cb2; cb1 has been removed since, and a
\* successful cycle is about to complete with cb2 alone subscribed
C21_Witness ==
    \E j \in Jobs :
        /\ job[j].pc = "done"
        /\ job[j].result
        /\ lastCalled = <<"cb1", "cb2">>
        /\ sensors = <<"cb2">>

\* C22: a cycle that reports a failure after a read failed has first read with
\* the register map of another known variant (REGISTER_MAPS), that is, it
\* has issued a read that is not one of the four reads of the built-in
\* 3Play mapping.
C22_FailedCycleTriesVariants ==
    \A j \in Jobs :
        (job[j].pc = "done" /\ ~job[j].result /\ job[j].failed # {}) =>
            \E call \in job[j].issued :
                call \notin {"in0", "in100", "in1000", "hold"}

\* C23: when set_schedule_type writes, bits 1-3 and bits 8-15 of the word it
\* writes equal the same bits of the word it read from holding register 25.
C23_OtherBitsPreserved ==
    (calc.op = "schedule" /\ calc.new_val # calc.current_val) =>
        \A b \in {1, 2, 3} \cup 8..15 :
            Bit(calc.new_val, b) = Bit(calc.current_val, b)

\* ------------------------------------------------------------------------
\* Two select entities set their schedules at the same time
\* ------------------------------------------------------------------------
\* the entity of schedule 1 and the entity of schedule 2 each have an
\* executor thread; no poll cycle runs; the transport may fail
TwoWriters ==
    [jobs |-> {}, writers |-> {"w1", "w2"}, callbacks |-> {}, remove |-> FALSE,
     fail |-> TRUE, len1 |-> {100}, battery |-> {Discharging}, ticks |-> 0]

InitWriters ==
    /\ HubInit(TwoWriters)
    /\ calc = NoCalc
    /\ rm = NoMap

\* thread w1 runs set_schedule_type(1, a), thread w2 set_schedule_type(2, b)
NextWriters ==
    \/ \E a \in {2, 3} : WriterStart("w1", 1, a)
    \/ \E b \in {2, 3} : WriterStart("w2", 2, b)
    \/ \E w \in Writers : WriterAcquire(w)
    \/ \E w \in Writers : WriterRead(w)
    \/ \E w \in Writers : WriterWrite(w)
    \/ \E w \in Writers : WriterInvalidate(w)

SpecWriters == InitWriters /\ [][NextWriters]_vars

\* C24: set_schedule_type(1, a) and set_schedule_type(2, b) run in two
\* threads.  When a call is about to report success after its write, holding
\* register 25 holds the type it set for its schedule: the other call, which
\* sets the other schedule, has not undone it.
C24_NoLostUpdate ==
    \A w \in Writers :
        wr[w].pc = "inval" =>
            Field2(h25, 2 + 2 * wr[w].schedule_index) = wr[w].value

\* C25: the timer is scheduled iff the callback list is non-empty; a timer is
\* started only while none is scheduled (never a second one); the add that
\* makes the list non-empty has called connect() and starts the timer; the
\* remove that empties the list cancels the timer and calls close(), which
\* closes the connection.
C25_TimerIffSubscribed ==
    /\ [](unsub <=> sensors # <<>>)
    /\ [](evPc = "connect" => ~unsub)
    /\ [][/\ (~unsub /\ unsub') => (sensors = <<>> /\ sensors' # <<>>)
          /\ (sensors = <<>> /\ sensors' # <<>>)
                => (evPc = "connect" /\ Loop \in inClient /\ unsub')
          /\ (sensors # <<>> /\ sensors' = <<>>) => (~unsub' /\ evPc' = "close")
          /\ (evPc = "close" /\ evPc' # "close") => ~sockOpen']_vars

\* both entities were added, cycles have run, both entities were removed and
\* close() has returned
C25_Witness ==
    /\ sensors = <<>>
    /\ ~unsub
    /\ evPc = "idle"
    /\ ~sockOpen
    /\ lastCalled = <<"cb1", "cb2">>

\* C26: when no observer is subscribed, the event loop is idle and no poll
\* cycle is in flight, the connection is closed.
C26_ClosedWhenUnobserved ==
    (sensors = <<>> /\ evPc = "idle" /\ \A j \in Jobs : job[j].pc = "idle")
        => ~sockOpen

\* ------------------------------------------------------------------------
\* Properties of the length check and of the decoded values
\* ------------------------------------------------------------------------
\* C27: a cycle whose reads at address 0 and at address 100 both answered but
\* returned fewer than 130 words together never gets to the decoding: it
\* writes nothing and returns False; and the inverter state a cycle decodes
\* from index 137 is the word the device returned for address 1007.
C27_ShortInputReadsRejected ==
    \A j \in env.jobs :
        /\ (/\ "in100" \in job[j].issued \ job[j].failed
            /\ job[j].len1 + job[j].len2 < MinRegisters)
              => /\ job[j].pc \notin {"dec1", "dec2", "dec3"}
                 /\ ~job[j].wrote
                 /\ job[j].pc = "done" => ~job[j].result
        /\ (job[j].pc = "dec3" /\ job[j].regs1000 # None)
              => data.inverter_state = job[j].regs1000

\* C28: a cycle whose holding read answered, so that it has set
\* _last_config_update to its "now", returns True and the configuration
\* decoded from that read is in the snapshot.
C28_TimerAdvancedOnlyWhenPublished ==
    \A j \in Jobs :
        (job[j].pc = "done" /\ "hold" \in job[j].issued \ job[j].failed) =>
            /\ job[j].result
            /\ data.config_soc_ac_charging_schedule1_type # None
            /\ data.config_soc_ac_charging_schedule2_type # None

\* C29: in a cycle whose read at 1000 failed and which decodes over a
\* snapshot that has an inverter state, the inverter state after the status
\* is decoded is the one the cycle found.
C29_FailedBlockKeepsStatus ==
    \A j \in Jobs :
        (/\ job[j].pc = "dec3"
         /\ "in1000" \in job[j].failed
         /\ job[j].before.inverter_state # None)
            => data.inverter_state = job[j].before.inverter_state

\* C30: every call of get_blocks after the first returns the list of blocks
\* the first call computed and stored, whatever arguments it passes, and the
\* stored list does not change.
C30_BlocksComputedOnce ==
    (calc.op = "plan" /\ calc.again) =>
        /\ calc.ret = calc.blocks
        /\ calc.cached = Some(calc.blocks)

\* a later call passed arguments under which the plan would be another one
C30_Witness ==
    /\ calc.op = "plan"
    /\ calc.again
    /\ calc.ret = calc.blocks
    /\ Len(calc.blocks) = 1
    /\ Len(GetBlocks(calc.regs, calc.args[1], calc.args[2])) = 3

====
